---- MODULE Spec2Model ----
(***************************************************************************)
(* Rent-vs-buy projection engine (CalculatorResults.calculations).         *)
(*                                                                         *)
(* The engine computes with JavaScript numbers (IEEE-754 doubles).  The    *)
(* model keeps the shape of that arithmetic at a precision TLC can hold:   *)
(* a finite number is an integer count of 1/Scale units, additions and     *)
(* subtractions are exact, and every product and quotient is rounded to    *)
(* the nearest representable value (ties to even), as a double operation   *)
(* is.  The three non-finite doubles are kept as values of their own.      *)
(* loanTerm and yearsToCompare are integers, as the input record says.     *)
(***************************************************************************)
EXTENDS Integers, Sequences, FiniteSets, TLC

(* ------------------------------ bounds --------------------------------- *)
Base == 100
MaxYears == 3
MaxLoanTerm == 2

(* ------------------------- the number model ---------------------------- *)
\* the resolution of a number: two digits of Base after the point
Scale == Base * Base

PosInf == 2000000000
NegInf == -2000000000
NaN == 2000000001

IsNaN(a) == a = NaN
IsInf(a) == a = PosInf \/ a = NegInf
IsFinite(a) == ~IsNaN(a) /\ ~IsInf(a)

N(k) == k * Scale
One == N(1)

Sign(a) == IF a > 0 THEN 1 ELSE IF a < 0 THEN -1 ELSE 0
SignedInf(s) == IF s > 0 THEN PosInf ELSE NegInf

\* x / d rounded to the nearest integer, ties to even (d > 0)
RoundDiv(x, d) ==
  LET q == x \div d
      m == x % d
  IN  IF 2 * m < d THEN q
      ELSE IF 2 * m > d THEN q + 1
      ELSE IF q % 2 = 0 THEN q ELSE q + 1

Neg(a) ==
  IF IsNaN(a) THEN NaN
  ELSE IF a = PosInf THEN NegInf
  ELSE IF a = NegInf THEN PosInf
  ELSE 0 - a

Add(a, b) ==
  IF IsNaN(a) \/ IsNaN(b) THEN NaN
  ELSE IF IsInf(a) THEN (IF IsInf(b) /\ b # a THEN NaN ELSE a)
  ELSE IF IsInf(b) THEN b
  ELSE a + b

Sub(a, b) == Add(a, Neg(b))

\* a * b of two finite numbers, rounded once; the product is formed limb
\* by limb so that no intermediate leaves the 32-bit integers of the checker
MulFin(a, b) ==
  LET ah == a \div Scale
      al == a % Scale
      bh == b \div Scale
      bl == b % Scale
  IN  ah * bh * Scale + ah * bl + al * bh + RoundDiv(al * bl, Scale)

Mul(a, b) ==
  IF IsNaN(a) \/ IsNaN(b) THEN NaN
  ELSE IF IsInf(a) \/ IsInf(b)
       THEN (IF a = 0 \/ b = 0 THEN NaN ELSE SignedInf(Sign(a) * Sign(b)))
  ELSE MulFin(a, b)

\* a / b of two finite numbers, b > 0, rounded once (long division, one
\* digit of Base at a time)
DivPos(a, b) ==
  LET k == a \div b
      m == a % b
      d == (m * Base) \div b
      e == (m * Base) % b
  IN  k * Scale + d * Base + RoundDiv(e * Base, b)

DivFin(a, b) == IF b > 0 THEN DivPos(a, b) ELSE DivPos(0 - a, 0 - b)

Div(a, b) ==
  IF IsNaN(a) \/ IsNaN(b) THEN NaN
  ELSE IF IsInf(a) THEN (IF IsInf(b) THEN NaN
                         ELSE SignedInf(Sign(a) * (IF b < 0 THEN -1 ELSE 1)))
  ELSE IF IsInf(b) THEN 0
  ELSE IF b = 0 THEN (IF a = 0 THEN NaN ELSE SignedInf(Sign(a)))
  ELSE DivFin(a, b)

\* comparisons with a NaN operand are false
Leq(a, b) == ~IsNaN(a) /\ ~IsNaN(b) /\ a <= b
Lt(a, b) == ~IsNaN(a) /\ ~IsNaN(b) /\ a < b

\* Math.min
Min(a, b) == IF IsNaN(a) \/ IsNaN(b) THEN NaN ELSE IF a <= b THEN a ELSE b

\* Math.abs
Abs(a) == IF IsNaN(a) THEN NaN ELSE IF IsInf(a) THEN PosInf ELSE IF a < 0 THEN 0 - a ELSE a

\* Math.round: floor(a + 0.5), a whole number of units
Round(a) == IF IsFinite(a) THEN ((2 * a + Scale) \div (2 * Scale)) * Scale ELSE a

\* Math.pow with an integer exponent (square and multiply)
RECURSIVE Pow(_, _)
Pow(b, n) ==
  IF n = 0 THEN One
  ELSE IF n < 0 THEN Div(One, Pow(b, 0 - n))
  ELSE IF n % 2 = 0 THEN LET h == Pow(b, n \div 2) IN Mul(h, h)
  ELSE Mul(Pow(b, n - 1), b)

(* --------------------------- input records ----------------------------- *)
\* amounts are counted in thousands of currency units
\* valid values (spec 4.1 preconditions) and malformed ones
HomePrices == {N(0), N(100), N(300)}
DownPaymentPercents == {N(0), N(20), N(100)}
InterestRates == {N(0), N(6), N(12)}
LoanTerms == 1..MaxLoanTerm
MonthlyRents == {N(0), N(2)}
OwnershipCostsRates == {N(0), N(2)}
MarketGrowthRates == {N(-2), N(0), N(3)}
InvestmentReturns == {N(0), N(7)}
Years == 0..MaxYears

ValidInputs ==
  [homePrice : HomePrices, downPaymentPercent : DownPaymentPercents,
   interestRate : InterestRates, loanTerm : LoanTerms,
   monthlyRent : MonthlyRents, ownershipCostsRate : OwnershipCostsRates,
   marketGrowthRate : MarketGrowthRates, investmentReturn : InvestmentReturns,
   yearsToCompare : Years]

MalformedInputs ==
  [homePrice : {N(-100), N(100)}, downPaymentPercent : {N(-10), N(20), N(120)},
   interestRate : {N(0), N(12)}, loanTerm : {-1, 0, 1},
   monthlyRent : {N(-2), N(2)}, ownershipCostsRate : {N(2)},
   marketGrowthRate : {N(3)}, investmentReturn : {N(7)},
   yearsToCompare : {-1, 1, MaxYears}]

\* Calculator.tsx defaultInputs; amounts are counted in thousands
defaultInputs ==
  [homePrice |-> N(400), downPaymentPercent |-> N(20), interestRate |-> Div(N(13), N(2)),
   loanTerm |-> 30, monthlyRent |-> N(2), ownershipCostsRate |-> N(2),
   marketGrowthRate |-> N(3), investmentReturn |-> N(7), yearsToCompare |-> 20]

\* spec 8, Scenario B: zero rate, loanAmount 100 (thousand), loanTerm 10
scenarioB ==
  [defaultInputs EXCEPT !.homePrice = N(100), !.downPaymentPercent = N(0),
                        !.interestRate = N(0), !.loanTerm = 10,
                        !.yearsToCompare = MaxYears]

Inputs == ValidInputs \cup MalformedInputs \cup {defaultInputs, scenarioB}

\* the records projected more than once
MemoInputs ==
  [homePrice : {N(100), N(300)}, downPaymentPercent : {N(20)},
   interestRate : {N(0), N(12)}, loanTerm : {1},
   monthlyRent : {N(0), N(2)}, ownershipCostsRate : {N(2)},
   marketGrowthRate : {N(3)}, investmentReturn : {N(7)},
   yearsToCompare : 0..MaxYears - 1]

Valid(inp) ==
  /\ inp.yearsToCompare >= 0
  /\ inp.loanTerm >= 1
  /\ inp.homePrice >= 0
  /\ inp.downPaymentPercent >= 0
  /\ inp.downPaymentPercent <= N(100)

(* ------------------------ derived constants ---------------------------- *)
downPayment(inp) == Div(Mul(inp.homePrice, inp.downPaymentPercent), N(100))
loanAmount(inp) == Sub(inp.homePrice, downPayment(inp))
monthlyInterestRate(inp) == Div(Div(inp.interestRate, N(100)), N(12))
numberOfPayments(inp) == inp.loanTerm * 12

\* mutant: the denominator is (1+r)^n instead of (1+r)^n - 1
AnnuityNoMinusOne(L, r, n) ==
  Div(Mul(L, Mul(r, Pow(Add(One, r), n))), Pow(Add(One, r), n))

\* the standard fixed-rate annuity payment
Annuity(L, r, n) ==
  Div(Mul(L, Mul(r, Pow(Add(One, r), n))), Sub(Pow(Add(One, r), n), One))

\* mutant: no zero-rate branch
MonthlyMortgageNoBranch(L, r, n) == Annuity(L, r, n)

MonthlyMortgageOf(L, r, n) ==
  IF r = 0 THEN Div(L, N(n)) ELSE Annuity(L, r, n)

monthlyMortgageOf(inp) ==
  MonthlyMortgageOf(loanAmount(inp), monthlyInterestRate(inp), numberOfPayments(inp))

\* mutant: the rate is taken off instead of added
GrowthFactorNegated(rate) == Sub(One, Div(rate, N(100)))

\* 1 + rate / 100
GrowthFactor(rate) == Add(One, Div(rate, N(100)))

\* mutant: the loop stops one year early
LoopCondExclusive(y, yearsToCompare) == y < yearsToCompare

\* for (let year = 0; year <= yearsToCompare; year++)
LoopCond(y, yearsToCompare) == y <= yearsToCompare

\* one month of the amortization schedule
InterestPayment(balance, r) == Mul(balance, r)
PrincipalPayment(payment, balance, r) == Sub(payment, InterestPayment(balance, r))
\* mutant: the principal is not capped at the balance
ActualPrincipalUncapped(principal, balance) == principal
ActualPrincipalPayment(principal, balance) == Min(principal, balance)

\* mutant: the loan still owed is not taken off the home value
EquityIgnoringLoan(homeValue, balance) == homeValue
Equity(homeValue, balance) == Sub(homeValue, balance)

\* mutant: the buy cost is not net of equity
BuyCostGross(cumBuy, equity) == Round(cumBuy)
BuyCost(cumBuy, equity) == Round(Sub(cumBuy, equity))
\* mutant: the rent cost is stored unrounded
RentCostUnrounded(cumRent, gain) == Sub(cumRent, gain)
RentCost(cumRent, gain) == Round(Sub(cumRent, gain))

\* mutant: the year's cash-flow spread is swept into the portfolio
GrowInvestmentWithSpread(balance, rate, annualBuy, annualRent) ==
  Add(Mul(balance, GrowthFactor(rate)), Sub(annualBuy, annualRent))

\* the renter's portfolio after one more year
GrowInvestment(balance, rate, annualBuy, annualRent) == Mul(balance, GrowthFactor(rate))

\* mutant: the ownership costs are taken from the purchase price
AnnualOwnershipCostsOfPrice(homeValue, homePrice, rate) ==
  Div(Mul(homePrice, rate), N(100))

\* (currentHomeValue * ownershipCostsRate) / 100
AnnualOwnershipCosts(homeValue, homePrice, rate) == Div(Mul(homeValue, rate), N(100))

\* mutant: the rent is grown before the year's rent is charged
AnnualRentGrownFirst(rent, rate) == Mul(Mul(rent, GrowthFactor(rate)), N(12))

\* currentRent * 12, charged before the rent is grown for the next year
AnnualRent(rent, rate) == Mul(rent, N(12))

\* mutant: the saving keeps its sign
DifferenceSigned(buy, rent) == Sub(buy, rent)
Difference(buy, rent) == Abs(Sub(buy, rent))

\* mutant: a tie counts as buying being cheaper
IsBuyingCheaperOrEqual(buy, rent) == Leq(buy, rent)
IsBuyingCheaper(buy, rent) == Lt(buy, rent)

(* ------------------------------ state ---------------------------------- *)
VARIABLES
  inputs,                   \* the props of CalculatorResults
  pc,                       \* position inside the useMemo callback
  monthlyMortgage,
  yearlyData,
  cumulativeBuyCost,
  cumulativeRentCost,
  investmentBalance,
  currentRent,
  currentHomeValue,
  remainingLoanBalance,
  totalMortgagePaid,
  totalOwnershipCostsPaid,
  finalNetInvestmentGain,
  year,
  month,
  annualMortgagePaid,
  result,                   \* the value returned by the callback
  memo                      \* observer: one earlier call and what it returned

locals == <<monthlyMortgage, yearlyData, cumulativeBuyCost, cumulativeRentCost,
            investmentBalance, currentRent, currentHomeValue, remainingLoanBalance,
            totalMortgagePaid, totalOwnershipCostsPaid, finalNetInvestmentGain,
            year, month, annualMortgagePaid>>

vars == <<inputs, pc, locals, result, memo>>

NoResult ==
  [yearlyData |-> <<>>, monthlyMortgage |-> 0, finalBuyCost |-> 0,
   finalRentCost |-> 0, difference |-> 0, isBuyingCheaper |-> FALSE,
   equityBuilt |-> 0, downPayment |-> 0, totalMortgagePaid |-> 0,
   totalOwnershipCostsPaid |-> 0, totalBuyCashOut |-> 0, totalRentPaid |-> 0,
   netInvestmentGain |-> 0]

NoMemo == [set |-> FALSE, inputs |-> defaultInputs, result |-> NoResult]

Init ==
  /\ inputs = defaultInputs
  /\ pc = "idle"
  /\ monthlyMortgage = 0
  /\ yearlyData = <<>>
  /\ cumulativeBuyCost = 0
  /\ cumulativeRentCost = 0
  /\ investmentBalance = 0
  /\ currentRent = 0
  /\ currentHomeValue = 0
  /\ remainingLoanBalance = 0
  /\ totalMortgagePaid = 0
  /\ totalOwnershipCostsPaid = 0
  /\ finalNetInvestmentGain = 0
  /\ year = 0
  /\ month = 0
  /\ annualMortgagePaid = 0
  /\ result = NoResult
  /\ memo = NoMemo

Resting == pc \in {"idle", "done", "threw"}

(* ------------------------------ actions -------------------------------- *)
\* mutant: the rent accumulator outlives the call
StartProjectionStale(inp) ==
  /\ Resting
  /\ inputs' = inp
  /\ monthlyMortgage' = monthlyMortgageOf(inp)
  /\ yearlyData' = <<>>
  /\ cumulativeBuyCost' = downPayment(inp)
  /\ investmentBalance' = downPayment(inp)
  /\ currentRent' = inp.monthlyRent
  /\ currentHomeValue' = inp.homePrice
  /\ remainingLoanBalance' = loanAmount(inp)
  /\ totalMortgagePaid' = 0
  /\ totalOwnershipCostsPaid' = 0
  /\ finalNetInvestmentGain' = 0
  /\ year' = 0
  /\ month' = 0
  /\ annualMortgagePaid' = 0
  /\ pc' = "year"
  /\ UNCHANGED <<cumulativeRentCost, result, memo>>

\* the callback is entered with a new input record: lines 28-63
StartProjection(inp) ==
  /\ Resting
  /\ inputs' = inp
  /\ monthlyMortgage' = monthlyMortgageOf(inp)
  /\ yearlyData' = <<>>
  /\ cumulativeBuyCost' = downPayment(inp)
  /\ cumulativeRentCost' = 0
  /\ investmentBalance' = downPayment(inp)
  /\ currentRent' = inp.monthlyRent
  /\ currentHomeValue' = inp.homePrice
  /\ remainingLoanBalance' = loanAmount(inp)
  /\ totalMortgagePaid' = 0
  /\ totalOwnershipCostsPaid' = 0
  /\ finalNetInvestmentGain' = 0
  /\ year' = 0
  /\ month' = 0
  /\ annualMortgagePaid' = 0
  /\ pc' = "year"
  /\ UNCHANGED <<result, memo>>

\* mutant: the year's body also runs for year 0
YearBeginNoSkip ==
  /\ pc = "year"
  /\ IF LoopCond(year, inputs.yearsToCompare)
     THEN IF year >= 0
          THEN /\ currentHomeValue' = Mul(currentHomeValue, GrowthFactor(inputs.marketGrowthRate))
               /\ annualMortgagePaid' = 0
               /\ month' = 0
               /\ pc' = "month"
          ELSE /\ pc' = "snapshot"
               /\ UNCHANGED <<currentHomeValue, annualMortgagePaid, month>>
     ELSE /\ pc' = "summary"
          /\ UNCHANGED <<currentHomeValue, annualMortgagePaid, month>>
  /\ UNCHANGED <<inputs, monthlyMortgage, yearlyData, cumulativeBuyCost,
                 cumulativeRentCost, investmentBalance, currentRent,
                 remainingLoanBalance, totalMortgagePaid, totalOwnershipCostsPaid,
                 finalNetInvestmentGain, year, result, memo>>

\* head of the year loop: lines 65-71
YearBegin ==
  /\ pc = "year"
  /\ IF LoopCond(year, inputs.yearsToCompare)
     THEN IF year > 0
          THEN /\ currentHomeValue' = Mul(currentHomeValue, GrowthFactor(inputs.marketGrowthRate))
               /\ annualMortgagePaid' = 0
               /\ month' = 0
               /\ pc' = "month"
          ELSE /\ pc' = "snapshot"
               /\ UNCHANGED <<currentHomeValue, annualMortgagePaid, month>>
     ELSE /\ pc' = "summary"
          /\ UNCHANGED <<currentHomeValue, annualMortgagePaid, month>>
  /\ UNCHANGED <<inputs, monthlyMortgage, yearlyData, cumulativeBuyCost,
                 cumulativeRentCost, investmentBalance, currentRent,
                 remainingLoanBalance, totalMortgagePaid, totalOwnershipCostsPaid,
                 finalNetInvestmentGain, year, result, memo>>

\* one pass of the month loop: lines 72-82
MonthStep ==
  /\ pc = "month"
  /\ IF month < 12 /\ ~Leq(remainingLoanBalance, 0)
     THEN LET r == monthlyInterestRate(inputs)
              interestPayment == InterestPayment(remainingLoanBalance, r)
              principalPayment == PrincipalPayment(monthlyMortgage, remainingLoanBalance, r)
              actualPrincipalPayment ==
                ActualPrincipalPayment(principalPayment, remainingLoanBalance)
              actualPayment == Add(actualPrincipalPayment, interestPayment)
          IN  /\ annualMortgagePaid' = Add(annualMortgagePaid, actualPayment)
              /\ remainingLoanBalance' = Sub(remainingLoanBalance, actualPrincipalPayment)
              /\ month' = month + 1
              /\ pc' = "month"
     ELSE /\ pc' = "accrue"
          /\ UNCHANGED <<annualMortgagePaid, remainingLoanBalance, month>>
  /\ UNCHANGED <<inputs, monthlyMortgage, yearlyData, cumulativeBuyCost,
                 cumulativeRentCost, investmentBalance, currentRent, currentHomeValue,
                 totalMortgagePaid, totalOwnershipCostsPaid, finalNetInvestmentGain,
                 year, result, memo>>

\* the rest of the year's body: lines 84-99
YearAccrue ==
  /\ pc = "accrue"
  /\ LET annualOwnershipCosts ==
           AnnualOwnershipCosts(currentHomeValue, inputs.homePrice,
                                inputs.ownershipCostsRate)
         totalAnnualBuyCost == Add(annualMortgagePaid, annualOwnershipCosts)
         annualRent == AnnualRent(currentRent, inputs.marketGrowthRate)
     IN  /\ cumulativeBuyCost' = Add(cumulativeBuyCost, totalAnnualBuyCost)
         /\ totalMortgagePaid' = Add(totalMortgagePaid, annualMortgagePaid)
         /\ totalOwnershipCostsPaid' = Add(totalOwnershipCostsPaid, annualOwnershipCosts)
         /\ cumulativeRentCost' = Add(cumulativeRentCost, annualRent)
         /\ investmentBalance' =
              GrowInvestment(investmentBalance, inputs.investmentReturn,
                             totalAnnualBuyCost, annualRent)
         /\ currentRent' = Mul(currentRent, GrowthFactor(inputs.marketGrowthRate))
  /\ pc' = "snapshot"
  /\ UNCHANGED <<inputs, monthlyMortgage, yearlyData, currentHomeValue,
                 remainingLoanBalance, finalNetInvestmentGain, year, month,
                 annualMortgagePaid, result, memo>>

\* mutant: the snapshots are labelled by the years left to the horizon
SnapshotYearsLeft ==
  /\ pc = "snapshot"
  /\ LET equity == Equity(currentHomeValue, remainingLoanBalance)
         netInvestmentGain == Sub(investmentBalance, downPayment(inputs))
     IN  /\ finalNetInvestmentGain' = netInvestmentGain
         /\ yearlyData' = Append(yearlyData,
              [year |-> inputs.yearsToCompare - year,
               buyCost |-> BuyCost(cumulativeBuyCost, equity),
               rentCost |-> RentCost(cumulativeRentCost, netInvestmentGain)])
  /\ year' = year + 1
  /\ pc' = "year"
  /\ UNCHANGED <<inputs, monthlyMortgage, cumulativeBuyCost, cumulativeRentCost,
                 investmentBalance, currentRent, currentHomeValue, remainingLoanBalance,
                 totalMortgagePaid, totalOwnershipCostsPaid, month,
                 annualMortgagePaid, result, memo>>

\* the year's snapshot and year++: lines 102-111
Snapshot ==
  /\ pc = "snapshot"
  /\ LET equity == Equity(currentHomeValue, remainingLoanBalance)
         netInvestmentGain == Sub(investmentBalance, downPayment(inputs))
     IN  /\ finalNetInvestmentGain' = netInvestmentGain
         /\ yearlyData' = Append(yearlyData,
              [year |-> year,
               buyCost |-> BuyCost(cumulativeBuyCost, equity),
               rentCost |-> RentCost(cumulativeRentCost, netInvestmentGain)])
  /\ year' = year + 1
  /\ pc' = "year"
  /\ UNCHANGED <<inputs, monthlyMortgage, cumulativeBuyCost, cumulativeRentCost,
                 investmentBalance, currentRent, currentHomeValue, remainingLoanBalance,
                 totalMortgagePaid, totalOwnershipCostsPaid, month,
                 annualMortgagePaid, result, memo>>

\* after the loop: lines 113-132.  yearlyData[yearlyData.length - 1] is
\* undefined when no snapshot was pushed, and reading .buyCost of it throws.
Summary ==
  /\ pc = "summary"
  /\ IF Len(yearlyData) = 0
     THEN /\ pc' = "threw"
          /\ UNCHANGED result
     ELSE LET finalBuyCost == yearlyData[Len(yearlyData)].buyCost
              finalRentCost == yearlyData[Len(yearlyData)].rentCost
          IN  /\ result' =
                   [yearlyData |-> yearlyData,
                    monthlyMortgage |-> monthlyMortgage,
                    finalBuyCost |-> finalBuyCost,
                    finalRentCost |-> finalRentCost,
                    difference |-> Difference(finalBuyCost, finalRentCost),
                    isBuyingCheaper |-> IsBuyingCheaper(finalBuyCost, finalRentCost),
                    equityBuilt |-> Sub(currentHomeValue, remainingLoanBalance),
                    downPayment |-> downPayment(inputs),
                    totalMortgagePaid |-> totalMortgagePaid,
                    totalOwnershipCostsPaid |-> totalOwnershipCostsPaid,
                    totalBuyCashOut |-> cumulativeBuyCost,
                    totalRentPaid |-> cumulativeRentCost,
                    netInvestmentGain |-> finalNetInvestmentGain]
              /\ pc' = "done"
  /\ UNCHANGED <<inputs, locals, memo>>

\* the first render: one projection of any input record
Mount == pc = "idle" /\ \E inp \in Inputs : StartProjection(inp)

Next ==
  \/ Mount
  \/ YearBegin
  \/ MonthStep
  \/ YearAccrue
  \/ Snapshot
  \/ Summary

Spec == Init /\ [][Next]_vars

\* a later render with another (or the same) input record
Rerender == Resting /\ \E inp \in MemoInputs : StartProjection(inp)

\* observer: keep one returned result to compare later calls with
Remember ==
  /\ pc = "done"
  /\ ~memo.set
  /\ memo' = [set |-> TRUE, inputs |-> inputs, result |-> result]
  /\ UNCHANGED <<inputs, pc, locals, result>>

NextMemo ==
  \/ Rerender
  \/ Remember
  \/ YearBegin
  \/ MonthStep
  \/ YearAccrue
  \/ Snapshot
  \/ Summary

SpecMemo == Init /\ [][NextMemo]_vars

(* ------------------------------ the form ------------------------------- *)
Keys ==
  {"homePrice", "downPaymentPercent", "interestRate", "loanTerm", "monthlyRent",
   "ownershipCostsRate", "marketGrowthRate", "investmentReturn", "yearsToCompare"}

\* the min and max props of the nine sliders (amounts in thousands)
SliderMin ==
  [homePrice |-> N(100), downPaymentPercent |-> N(0), interestRate |-> N(2),
   loanTerm |-> 10, monthlyRent |-> Div(N(1), N(2)), ownershipCostsRate |-> N(0),
   marketGrowthRate |-> N(-2), investmentReturn |-> N(0), yearsToCompare |-> 1]

SliderMax ==
  [homePrice |-> N(2000), downPaymentPercent |-> N(50), interestRate |-> N(12),
   loanTerm |-> 30, monthlyRent |-> N(10), ownershipCostsRate |-> N(6),
   marketGrowthRate |-> N(10), investmentReturn |-> N(15), yearsToCompare |-> 40]

\* values a slider hands to onValueChange: the value it shows at first and,
\* for seven of the nine sliders, one end of its track
SliderStops ==
  [homePrice |-> {N(400), N(100)}, downPaymentPercent |-> {N(20), N(50)},
   interestRate |-> {Div(N(13), N(2)), N(2)}, loanTerm |-> {30, 10},
   monthlyRent |-> {N(2), N(10)}, ownershipCostsRate |-> {N(2)},
   marketGrowthRate |-> {N(3), N(-2)}, investmentReturn |-> {N(7)},
   yearsToCompare |-> {20, 1}]

\* mutant: every slider writes to homePrice
UpdateInputWrongKey(key, value) ==
  /\ pc # "idle"
  /\ StartProjection([inputs EXCEPT !.homePrice = value])

\* mutant: the new record is built from the defaults, not from prev
UpdateInputNoSpread(key, value) ==
  /\ pc # "idle"
  /\ StartProjection([defaultInputs EXCEPT ![key] = value])

\* mutant: the record is replaced but the calculation is not run again
UpdateInputNoRecompute(key, value) ==
  /\ pc # "idle"
  /\ Resting
  /\ inputs' = [inputs EXCEPT ![key] = value]
  /\ UNCHANGED <<pc, locals, result, memo>>

\* updateInput: setInputs((prev) => ({ ...prev, [key]: value })); the new
\* record is a new object, so the render that follows runs the useMemo
\* callback again
UpdateInput(key, value) ==
  /\ pc # "idle"
  /\ StartProjection([inputs EXCEPT ![key] = value])

\* the first render, with useState(defaultInputs)
FirstRender == pc = "idle" /\ StartProjection(defaultInputs)

SliderChange == \E key \in Keys : \E value \in SliderStops[key] : UpdateInput(key, value)

NextUI ==
  \/ FirstRender
  \/ SliderChange
  \/ YearBegin
  \/ MonthStep
  \/ YearAccrue
  \/ Snapshot
  \/ Summary

SpecUI == Init /\ [][NextUI]_vars

(* ------------------------------ claims --------------------------------- *)
\* the year loop's body for year y has run its month loop to the end
MonthsDone(y) == year > y \/ (year = y /\ pc \in {"accrue", "snapshot"})

\* the number of times the year's body has grown the investment balance
YearsAccrued ==
  IF pc = "snapshot" THEN year
  ELSE IF year > 0 THEN year - 1
  ELSE 0

\* p compounded k times at rate percent a year
RECURSIVE Compounded(_, _, _)
Compounded(p, rate, k) ==
  IF k = 0 THEN p ELSE Mul(Compounded(p, rate, k - 1), GrowthFactor(rate))

\* C1: for every valid input record the returned yearlyData has exactly
\* yearsToCompare + 1 entries and the entry at index i has year = i
\* (sequences count from 1, so entry i + 1 holds year i).
C1_YearlyDataShape ==
  (pc = "done" /\ Valid(inputs)) =>
     /\ Len(result.yearlyData) = inputs.yearsToCompare + 1
     /\ \A i \in 1..Len(result.yearlyData) : result.yearlyData[i].year = i - 1

C1_Witness ==
  /\ pc = "done"
  /\ Valid(inputs)
  /\ inputs.yearsToCompare >= 2
  /\ Len(result.yearlyData) = inputs.yearsToCompare + 1

\* C2 as stated: with yearsToCompare = 0 the single entry is
\* { year: 0, buyCost: round(downPayment), rentCost: 0 }.
C2_YearZeroIsDownPayment ==
  (pc = "done" /\ Valid(inputs) /\ inputs.yearsToCompare = 0) =>
     result.yearlyData =
       <<[year |-> 0, buyCost |-> Round(downPayment(inputs)), rentCost |-> 0]>>

\* C2 (amended): with yearsToCompare = 0 the single entry is
\* { year: 0, buyCost: round(downPayment - equity), rentCost: 0 } where the
\* year-0 equity homePrice - loanAmount offsets the down payment, so that
\* buyCost is 0.
C2_YearZeroNetOfEquity ==
  (pc = "done" /\ Valid(inputs) /\ inputs.yearsToCompare = 0) =>
     /\ result.yearlyData =
          <<[year |-> 0,
             buyCost |-> Round(Sub(downPayment(inputs),
                                   Sub(inputs.homePrice, loanAmount(inputs)))),
             rentCost |-> 0]>>
     /\ result.yearlyData[1].buyCost = 0

C2_Witness ==
  /\ pc = "done"
  /\ Valid(inputs)
  /\ inputs.yearsToCompare = 0
  /\ downPayment(inputs) > 0
  /\ Len(result.yearlyData) = 1

\* C3: for valid inputs with interestRate >= 0 the remaining loan balance
\* is >= 0 after every step of a projection and never increases from one
\* step to the next, within a year and across year boundaries.
C3_BalanceNonIncreasing ==
  [][(~Resting /\ Valid(inputs) /\ inputs.interestRate >= 0) =>
        /\ remainingLoanBalance' >= 0
        /\ remainingLoanBalance' <= remainingLoanBalance]_vars

\* a final payment that is truncated to the remaining balance
C3_Witness ==
  /\ pc = "month"
  /\ month > 0
  /\ Valid(inputs)
  /\ inputs.interestRate > 0
  /\ loanAmount(inputs) > 0
  /\ remainingLoanBalance = 0
  /\ Lt(annualMortgagePaid, Mul(monthlyMortgage, N(month)))

\* C4: given a positive interestRate and yearsToCompare >= loanTerm, the
\* remaining loan balance is exactly 0 once the payments of year loanTerm
\* are made, and in every later year.
C4_PaidOffByTerm ==
  (/\ pc # "idle"
   /\ Valid(inputs)
   /\ inputs.interestRate > 0
   /\ inputs.yearsToCompare >= inputs.loanTerm
   /\ MonthsDone(inputs.loanTerm)) => remainingLoanBalance = 0

\* C5: at interestRate = 0 (loanTerm >= 1) the payment is the straight-line
\* loanAmount / (loanTerm * 12), a finite number.
C5_ZeroRatePayment ==
  (pc # "idle" /\ inputs.interestRate = 0 /\ inputs.loanTerm >= 1) =>
     /\ monthlyMortgage = Div(loanAmount(inputs), N(inputs.loanTerm * 12))
     /\ IsFinite(monthlyMortgage)

\* Scenario B: 100 / 120
C5_Witness ==
  /\ pc = "done"
  /\ inputs = scenarioB
  /\ result.monthlyMortgage = Div(N(100), N(120))
  /\ result.monthlyMortgage > 0

\* C6: isBuyingCheaper is true exactly when finalBuyCost < finalRentCost;
\* on a tie it is false.
C6_StrictComparison ==
  pc = "done" =>
     /\ result.isBuyingCheaper <=> result.finalBuyCost < result.finalRentCost
     /\ result.finalBuyCost = result.finalRentCost => ~result.isBuyingCheaper

C6_Witness ==
  /\ pc = "done"
  /\ result.finalBuyCost = result.finalRentCost
  /\ ~result.isBuyingCheaper

\* C7: a call with the input record of an earlier call returns what that
\* call returned, in every field, whatever was projected in between.
C7_Deterministic ==
  (pc = "done" /\ memo.set /\ memo.inputs = inputs) => result = memo.result

\* the record of a remembered call is projected again, with rent accrued
C7_Witness ==
  /\ pc = "done"
  /\ memo.set
  /\ memo.inputs = inputs
  /\ result = memo.result
  /\ inputs.yearsToCompare > 0
  /\ cumulativeRentCost > 0

C9_InvestmentCapturesCashFlow ==
  [][(pc = "accrue" /\ annualMortgagePaid # Mul(currentRent, N(12))) =>
        investmentBalance' #
          Mul(investmentBalance, GrowthFactor(inputs.investmentReturn))]_vars

\* C10: for any numeric input record the projection returns a result and
\* does not raise an error.
C10_NeverThrows == pc # "threw"

\* every number of a returned result is a finite number
AllFinite(res) ==
  /\ \A f \in {"monthlyMortgage", "finalBuyCost", "finalRentCost", "difference",
               "equityBuilt", "downPayment", "totalMortgagePaid",
               "totalOwnershipCostsPaid", "totalBuyCashOut", "totalRentPaid",
               "netInvestmentGain"} : IsFinite(res[f])
  /\ \A i \in 1..Len(res.yearlyData) :
        IsFinite(res.yearlyData[i].buyCost) /\ IsFinite(res.yearlyData[i].rentCost)

\* a valid record with a field on the edge of the valid domain
OnBoundary(inp) ==
  \/ inp.interestRate = 0
  \/ inp.yearsToCompare = 0
  \/ inp.homePrice = 0
  \/ inp.downPaymentPercent = 0
  \/ inp.downPaymentPercent = N(100)
  \/ inp.loanTerm = 1

\* C11: on every boundary value of the valid domain the projection does not
\* raise an error, its final snapshot exists, and every output field is a
\* finite number.
C11_BoundariesAreFinite ==
  (Valid(inputs) /\ OnBoundary(inputs)) =>
     /\ pc # "threw"
     /\ pc = "summary" => Len(yearlyData) > 0
     /\ pc = "done" => AllFinite(result)

\* zero rate, zero years, zero price, everything paid down, one-year term
C11_Witness ==
  /\ pc = "done"
  /\ inputs.interestRate = 0
  /\ inputs.yearsToCompare = 0
  /\ inputs.homePrice = 0
  /\ inputs.downPaymentPercent = N(100)
  /\ inputs.loanTerm = 1
  /\ AllFinite(result)

C14_RoundedOnlyInSnapshots ==
  /\ [](\A i \in 1..Len(yearlyData) :
           /\ yearlyData[i].buyCost % Scale = 0
           /\ yearlyData[i].rentCost % Scale = 0)
  /\ [][/\ (pc = "snapshot") =>
             /\ UNCHANGED <<cumulativeBuyCost, cumulativeRentCost,
                            remainingLoanBalance, currentHomeValue, currentRent,
                            investmentBalance>>
             /\ yearlyData'[Len(yearlyData')].rentCost =
                  Round(Sub(cumulativeRentCost,
                            Sub(investmentBalance, downPayment(inputs))))
        /\ (pc = "accrue") =>
             /\ cumulativeRentCost' = Add(cumulativeRentCost, Mul(currentRent, N(12)))
             /\ cumulativeBuyCost' =
                  Add(cumulativeBuyCost,
                      Add(annualMortgagePaid,
                          Div(Mul(currentHomeValue, inputs.ownershipCostsRate),
                              N(100))))]_vars

\* a second snapshot was built while the totals hold fractions
C14_Witness ==
  /\ pc = "year"
  /\ Len(yearlyData) >= 3
  /\ Valid(inputs)
  /\ cumulativeBuyCost % Scale # 0
  /\ cumulativeRentCost % Scale # 0
  /\ yearlyData[3].rentCost # yearlyData[2].rentCost

\* C15: difference = |finalBuyCost - finalRentCost| >= 0; it is
\* finalRentCost - finalBuyCost when isBuyingCheaper, and
\* finalBuyCost - finalRentCost otherwise.
C15_DifferenceMatchesVerdict ==
  (pc = "done") =>
     /\ result.difference >= 0
     /\ result.isBuyingCheaper =>
          result.difference = result.finalRentCost - result.finalBuyCost
     /\ ~result.isBuyingCheaper =>
          result.difference = result.finalBuyCost - result.finalRentCost

C15_Witness ==
  /\ pc = "done"
  /\ result.isBuyingCheaper
  /\ result.difference > 0

\* C16: with yearsToCompare = 1 there are exactly 2 snapshots and year 1
\* has each effect once: home value = homePrice * (1 + marketGrowthRate/100),
\* at most 12 monthly payments, one year of ownership cost on that value,
\* rent paid = monthlyRent * 12, investment = downPayment * (1 +
\* investmentReturn/100).
C16_SingleYear ==
  (pc = "done" /\ Valid(inputs) /\ inputs.yearsToCompare = 1) =>
     /\ Len(result.yearlyData) = 2
     /\ currentHomeValue = Mul(inputs.homePrice, GrowthFactor(inputs.marketGrowthRate))
     /\ month <= 12
     /\ result.totalMortgagePaid <= Mul(monthlyMortgage, N(12))
     /\ result.totalOwnershipCostsPaid =
          Div(Mul(Mul(inputs.homePrice, GrowthFactor(inputs.marketGrowthRate)),
                  inputs.ownershipCostsRate), N(100))
     /\ result.totalRentPaid = Mul(inputs.monthlyRent, N(12))
     /\ investmentBalance =
          Mul(downPayment(inputs), GrowthFactor(inputs.investmentReturn))

C16_Witness ==
  /\ pc = "done"
  /\ Valid(inputs)
  /\ inputs.yearsToCompare = 1
  /\ month = 12
  /\ inputs.marketGrowthRate > 0
  /\ result.totalMortgagePaid > 0
  /\ result.totalOwnershipCostsPaid > 0
  /\ result.totalRentPaid > 0
  /\ result.netInvestmentGain > 0

\* C17: for Scenario A (the UI defaults, amounts in thousands) the loan is
\* 320, monthlyMortgage is the annuity payment on it, about 2.023 a month,
\* yearlyData has 21 entries, and the cumulative rent paid grows strictly
\* with every projected year.
C17_ScenarioA ==
  /\ []((inputs = defaultInputs /\ pc # "idle") =>
          /\ loanAmount(inputs) = N(320)
          /\ Lt(Abs(Sub(monthlyMortgage, Div(N(2023), N(1000)))), Div(N(1), N(50)))
          /\ pc = "done" => Len(result.yearlyData) = 21)
  /\ [][(inputs = defaultInputs /\ pc = "accrue") =>
           cumulativeRentCost' > cumulativeRentCost]_vars

C17_Witness ==
  /\ pc = "done"
  /\ inputs = defaultInputs
  /\ Len(result.yearlyData) = 21
  /\ result.totalRentPaid > N(24 * 20)

\* C20: the ownership cost of year k (k >= 1) is taken from the home value
\* already grown k times: homePrice * (1 + marketGrowthRate/100)^k *
\* ownershipCostsRate / 100.
C20_OwnershipCostOnGrownValue ==
  [][(pc = "accrue") =>
        totalOwnershipCostsPaid' =
          Add(totalOwnershipCostsPaid,
              Div(Mul(Compounded(inputs.homePrice, inputs.marketGrowthRate, year),
                      inputs.ownershipCostsRate), N(100)))]_vars

C20_Witness ==
  /\ pc = "snapshot"
  /\ year >= 2
  /\ inputs.homePrice > 0
  /\ inputs.marketGrowthRate # 0
  /\ inputs.ownershipCostsRate > 0
  /\ totalOwnershipCostsPaid > 0

\* the current record is the remembered one with one more year to compare
OneMoreYear ==
  /\ memo.set
  /\ inputs = [memo.inputs EXCEPT !.yearsToCompare = @ + 1]

\* C12: with marketGrowthRate >= 0 and monthlyRent >= 0, a projection with
\* yearsToCompare one larger and every other input the same never returns a
\* smaller totalRentPaid, and within a projection the current home value and
\* the current rent never go down.
C12_Monotone ==
  /\ []((/\ pc = "done"
         /\ OneMoreYear
         /\ inputs.marketGrowthRate >= 0
         /\ inputs.monthlyRent >= 0) =>
           result.totalRentPaid >= memo.result.totalRentPaid)
  /\ [][(/\ ~Resting
         /\ inputs.marketGrowthRate >= 0
         /\ inputs.monthlyRent >= 0) =>
           /\ currentHomeValue' >= currentHomeValue
           /\ currentRent' >= currentRent
           /\ cumulativeRentCost' >= cumulativeRentCost]_vars

\* one more year was projected, with more rent paid and a grown home
C12_Witness ==
  /\ pc = "done"
  /\ OneMoreYear
  /\ inputs.marketGrowthRate > 0
  /\ result.totalRentPaid > memo.result.totalRentPaid
  /\ memo.result.totalRentPaid > 0
  /\ currentHomeValue > inputs.homePrice

\* every field of a record lies on its slider's track
InSliderRange(inp) ==
  \A key \in Keys : inp[key] >= SliderMin[key] /\ inp[key] <= SliderMax[key]

\* C18: from defaultInputs and after any sequence of slider changes the
\* record handed to the engine has all nine fields, each within its slider's
\* [min, max], so homePrice >= 0, 0 <= downPaymentPercent <= 100,
\* loanTerm >= 1 and yearsToCompare >= 0 hold in every state of the form.
C18_InputsWithinSliderRanges ==
  /\ DOMAIN inputs = Keys
  /\ InSliderRange(inputs)
  /\ Valid(inputs)

\* sliders were moved to the ends of their tracks
C18_Witness ==
  /\ pc = "done"
  /\ inputs.homePrice = SliderMin.homePrice
  /\ inputs.downPaymentPercent = SliderMax.downPaymentPercent
  /\ inputs.loanTerm = SliderMin.loanTerm
  /\ inputs.yearsToCompare = SliderMin.yearsToCompare
  /\ inputs.marketGrowthRate = SliderMin.marketGrowthRate
  /\ InSliderRange(inputs)

\* rent paid over the first k years of a projection of inp
RECURSIVE RentPaidOver(_, _)
RentPaidOver(inp, k) ==
  IF k = 0 THEN 0
  ELSE Add(RentPaidOver(inp, k - 1),
           Mul(Compounded(inp.monthlyRent, inp.marketGrowthRate, k - 1), N(12)))

\* ownership costs paid over the first k years of a projection of inp
RECURSIVE OwnershipPaidOver(_, _)
OwnershipPaidOver(inp, k) ==
  IF k = 0 THEN 0
  ELSE Add(OwnershipPaidOver(inp, k - 1),
           Div(Mul(Compounded(inp.homePrice, inp.marketGrowthRate, k),
                   inp.ownershipCostsRate), N(100)))

\* res carries the marks of a projection of inp: every input field decides
\* at least one of the compared outputs
ProjectionOf(res, inp) ==
  /\ Len(res.yearlyData) = inp.yearsToCompare + 1
  /\ res.downPayment = downPayment(inp)
  /\ res.monthlyMortgage = monthlyMortgageOf(inp)
  /\ res.totalRentPaid = RentPaidOver(inp, inp.yearsToCompare)
  /\ res.totalOwnershipCostsPaid = OwnershipPaidOver(inp, inp.yearsToCompare)
  /\ res.netInvestmentGain =
       Sub(Compounded(downPayment(inp), inp.investmentReturn, inp.yearsToCompare),
           downPayment(inp))

\* C19: whenever results are on display they are the projection of the
\* current input record, and every change of the record starts the
\* calculation again.
C19_ResultsFollowInputs ==
  /\ []((Resting /\ pc # "idle") => (pc = "done" /\ ProjectionOf(result, inputs)))
  /\ [][(inputs' # inputs) => pc' = "year"]_vars

\* results of a record other than the first one are on display
C19_Witness ==
  /\ pc = "done"
  /\ inputs.monthlyRent # defaultInputs.monthlyRent
  /\ inputs.yearsToCompare # defaultInputs.yearsToCompare
  /\ ProjectionOf(result, inputs)
  /\ ~ProjectionOf(result, defaultInputs)

\* C21: the rent charged in year k (k >= 1) is
\* 12 * monthlyRent * (1 + marketGrowthRate/100)^(k-1): the rent is grown only
\* after the year's rent was charged, while the home value of year k is
\* already grown k times.
C21_RentChargedBeforeGrowth ==
  [][(pc = "accrue") =>
        /\ cumulativeRentCost' =
             Add(cumulativeRentCost,
                 Mul(Compounded(inputs.monthlyRent, inputs.marketGrowthRate, year - 1),
                     N(12)))
        /\ currentRent' = Compounded(inputs.monthlyRent, inputs.marketGrowthRate, year)
        /\ currentHomeValue = Compounded(inputs.homePrice, inputs.marketGrowthRate, year)]_vars

\* the second year was charged at a rent grown once, on a home grown twice
C21_Witness ==
  /\ pc = "snapshot"
  /\ year = 2
  /\ inputs.marketGrowthRate > 0
  /\ inputs.monthlyRent > 0
  /\ inputs.homePrice > 0
  /\ cumulativeRentCost =
       Add(Mul(inputs.monthlyRent, N(12)),
           Mul(Mul(inputs.monthlyRent, GrowthFactor(inputs.marketGrowthRate)), N(12)))
  /\ currentHomeValue > Mul(inputs.homePrice, GrowthFactor(inputs.marketGrowthRate))

\* the amount paid by the month's pass that is being taken
PaidThisMonth == Sub(annualMortgagePaid', annualMortgagePaid)

C23_SimulationMatchesClosedForm ==
  (/\ pc = "done"
   /\ Valid(inputs)
   /\ inputs.interestRate > 0
   /\ inputs.yearsToCompare >= inputs.loanTerm) =>
      result.totalMortgagePaid = Mul(monthlyMortgage, N(inputs.loanTerm * 12))

\* C24: with every other input the same, the yearlyData returned for
\* yearsToCompare = N is exactly the first N + 1 entries of the yearlyData
\* returned for yearsToCompare = N + 1.
C24_HorizonExtendsPrefix ==
  (pc = "done" /\ OneMoreYear) =>
     /\ Len(result.yearlyData) = Len(memo.result.yearlyData) + 1
     /\ SubSeq(result.yearlyData, 1, Len(memo.result.yearlyData)) =
          memo.result.yearlyData

\* a two-year projection repeats the snapshots of the one-year projection
\* and adds a different one
C24_Witness ==
  /\ pc = "done"
  /\ OneMoreYear
  /\ Len(memo.result.yearlyData) = 2
  /\ Len(result.yearlyData) = 3
  /\ result.yearlyData[2] = memo.result.yearlyData[2]
  /\ result.yearlyData[3].rentCost # result.yearlyData[2].rentCost
  /\ result.yearlyData[3].buyCost # result.yearlyData[2].buyCost

====
